---- MODULE Spec2Model ----
(***************************************************************************)
(* Model of copy_paste.py: cloning the rows of one mission from a source   *)
(* store into a target store, with fresh identifiers and remapped foreign  *)
(* keys.  A row is a function from column names to values; every value is  *)
(* a string and None stands for Python's None / SQL NULL.                  *)
(***************************************************************************)
EXTENDS Integers, Sequences, FiniteSets, TLC

VARIABLES
    src,                        \* source store: table -> set of rows
    tgt,                        \* target store, committed rows: table -> set of rows
    pending,                    \* rows inserted on tgt_conn and not yet committed
    pc,                         \* position of the process
    mission_name,               \* args.mission_name
    DRY_RUN,
    COMMIT,
    old_mission_id,
    ti,                         \* index in TABLE_ORDER of the table being processed
    rows,                       \* rows of the current table still to be processed
    mission_old_ids_by_table,
    id_map,
    uuid_ctr,                   \* number of identifiers uuid4 has handed out
    written,                    \* this run's INSERTs: table -> set of [src, out]
    located,                    \* this run's fetch results: table -> set of rows
    dry_log,                    \* this run's "DRY RUN - would insert" lines
    tgt0,                       \* the target store when the run started
    runs,                       \* number of runs started
    same_schema,                \* TARGET_CONFIG names the database of SOURCE_CONFIG
    tgt_calls,                  \* this run's commit() and rollback() calls on tgt_conn
    prev                        \* what the previous run was and inserted

vars == <<src, tgt, pending, pc, mission_name, DRY_RUN, COMMIT, old_mission_id,
          ti, rows, mission_old_ids_by_table, id_map, uuid_ctr, written,
          located, dry_log, tgt0, runs, same_schema, tgt_calls, prev>>

None == "None"

Truthy(v) == v # None /\ v # ""

(* ---------------------------- bounds ----------------------------------- *)
MaxSrcRows == 3       \* rows of the source store besides the mission "Alpha"
MaxRuns == 3          \* successive runs of the program
RepeatSrcRows == 1    \* the same, for the repeated runs
TwiceSrcRows == 2     \* the same, for the two runs into fresh targets
SameSrcRows == 2      \* the same, for the runs with one database

(* ---------------------------- CONFIG ----------------------------------- *)
\* TABLE_ORDER with tasks after taskexecutions
TABLE_ORDER_TasksLast ==
    << "missions", "areas", "bottomidentification", "environmentaldata",
       "navigationmark", "operatornotes", "specialpoint", "tracks",
       "areacells", "areapoints", "paths", "qroutes", "trackpoints",
       "taskexecutions", "underwaterobject", "tasks" >>

\* TABLE_ORDER with areacells visited a second time
TABLE_ORDER_Twice ==
    << "missions", "areas", "bottomidentification", "environmentaldata",
       "navigationmark", "operatornotes", "specialpoint", "tracks", "tasks",
       "areacells", "areapoints", "paths", "qroutes", "trackpoints",
       "taskexecutions", "underwaterobject", "areacells" >>

\* TABLE_ORDER with tracks ahead of areas
TABLE_ORDER_TracksFirst ==
    << "missions", "tracks", "areas", "bottomidentification", "environmentaldata",
       "navigationmark", "operatornotes", "specialpoint", "tasks",
       "areacells", "areapoints", "paths", "qroutes", "trackpoints",
       "taskexecutions", "underwaterobject" >>

TABLE_ORDER ==
    << "missions", "areas", "bottomidentification", "environmentaldata",
       "navigationmark", "operatornotes", "specialpoint", "tracks", "tasks",
       "areacells", "areapoints", "paths", "qroutes", "trackpoints",
       "taskexecutions", "underwaterobject" >>

Tables == {TABLE_ORDER[i] : i \in 1..Len(TABLE_ORDER)}

\* the dict keeps the declaration order of its keys: a sequence of <<column, parent>>
FK_MAP ==
    [ missions |-> << >>,
      areas |-> << <<"missions_id", "missions">> >>,
      bottomidentification |-> << <<"missions_id", "missions">>,
                                  <<"bottomtype_id", None>>,
                                  <<"bottomclutter_id", None>> >>,
      environmentaldata |-> << <<"missions_id", "missions">> >>,
      navigationmark |-> << <<"missions_id", "missions">>, <<"marktype_id", None>> >>,
      operatornotes |-> << <<"missions_id", "missions">> >>,
      specialpoint |-> << <<"missions_id", "missions">> >>,
      tracks |-> << <<"missions_id", "missions">>, <<"areas_id", "areas">> >>,
      tasks |-> << <<"missions_id", "missions">>, <<"tracks_id", "tracks">>,
                   <<"specialpoint_id", "specialpoint">> >>,
      areacells |-> << <<"areas_id", "areas">> >>,
      areapoints |-> << <<"areas_id", "areas">> >>,
      paths |-> << <<"tracks_id", "tracks">>, <<"pathgenerator_id", None>>,
                   <<"colors_id", None>> >>,
      qroutes |-> << <<"tracks_id", "tracks">>, <<"qroutegenerator_id", None>> >>,
      trackpoints |-> << <<"tracks_id", "tracks">>, <<"navigationmode_id", None>> >>,
      taskexecutions |-> << <<"tasks_id", "tasks">> >>,
      underwaterobject |-> << <<"missions_id", "missions">>,
                              <<"taskexecutions_id", "taskexecutions">>,
                              <<"contacttype_id", None>>, <<"minebodytype_id", None>>,
                              <<"minetype_id", None>>, <<"nonmilectype_id", None>>,
                              <<"explosivetype_id", None>>, <<"materialtype_id", None>>,
                              <<"objectshapes_id", None>>, <<"techidenttype_id", None>>,
                              <<"buriedmethod_id", None>>, <<"colors_id", None>> >> ]

ZERO_DATE_STRS == {"0000-00-00 00:00:00", "0000-00-00"}

\* FK_MAP.get(table, {}).items()
FkItems(table) == IF table \in DOMAIN FK_MAP THEN FK_MAP[table] ELSE << >>

\* the columns of `table` that FK_MAP declares
FkCols(table) == {FkItems(table)[i][1] : i \in DOMAIN FkItems(table)}

\* FK_MAP[table][col]
FkParent(table, col) ==
    LET i == CHOOSE j \in DOMAIN FkItems(table) : FkItems(table)[j][1] = col
    IN  FkItems(table)[i][2]

(* ------------------------- the two stores ------------------------------ *)
\* The rows the source store may hold.  Every row of a table has the same
\* columns.  tracks carries a specialpoint_id column and areacells a
\* missions_id column that FK_MAP does not declare.
Cand ==
    << [tbl |-> "missions",
        row |-> [id |-> "m1", name |-> "Alpha", created |-> "0000-00-00 00:00:00"]],
       [tbl |-> "missions",
        row |-> [id |-> "m2", name |-> "Beta", created |-> "2024-05-01 10:00:00"]],
       [tbl |-> "areas", row |-> [id |-> "a1", missions_id |-> "m1"]],
       [tbl |-> "areas", row |-> [id |-> "a2", missions_id |-> "m1"]],
       [tbl |-> "specialpoint", row |-> [id |-> "s1", missions_id |-> "m1"]],
       [tbl |-> "tracks",
        row |-> [id |-> "t1", missions_id |-> "m1", areas_id |-> "a1",
                 specialpoint_id |-> None]],
       [tbl |-> "tracks",
        row |-> [id |-> "t2", missions_id |-> "m2", areas_id |-> "a1",
                 specialpoint_id |-> None]],
       [tbl |-> "tracks",
        row |-> [id |-> "t3", missions_id |-> "m1", areas_id |-> None,
                 specialpoint_id |-> "s2"]],
       [tbl |-> "tasks",
        row |-> [id |-> "k1", missions_id |-> "m1", tracks_id |-> "t1",
                 specialpoint_id |-> "s1"]],
       [tbl |-> "tasks",
        row |-> [id |-> "k2", missions_id |-> "m1", tracks_id |-> "t2",
                 specialpoint_id |-> "s2"]],
       [tbl |-> "areacells",
        row |-> [id |-> "c1", areas_id |-> "a1", missions_id |-> "m1"]],
       [tbl |-> "areacells",
        row |-> [id |-> "c2", areas_id |-> None, missions_id |-> "m1"]],
       [tbl |-> "areapoints", row |-> [id |-> "", areas_id |-> "a1"]],
       [tbl |-> "trackpoints",
        row |-> [id |-> "p1", tracks_id |-> "t1", navigationmode_id |-> "nav7"]],
       [tbl |-> "taskexecutions", row |-> [id |-> "e1", tasks_id |-> "k1"]],
       [tbl |-> "underwaterobject",
        row |-> [id |-> "u1", missions_id |-> "m1", taskexecutions_id |-> "e1",
                 colors_id |-> "col3"]] >>

\* rows the target store may hold before the first run
TgtCand ==
    << [tbl |-> "missions",
        row |-> [id |-> "x1", name |-> "Alpha", created |-> "2023-01-01 00:00:00"]] >>

EmptyDB == [t \in Tables |-> {}]

DBOf(cands, S) == [t \in Tables |-> {cands[i].row : i \in {j \in S : cands[j].tbl = t}}]

\* every source store holds the mission "Alpha" (candidate 1)
SrcChoices(k) ==
    {DBOf(Cand, S \cup {1}) : S \in {X \in SUBSET (2..Len(Cand)) : Cardinality(X) <= k}}

TgtChoices == {DBOf(TgtCand, S) : S \in SUBSET (1..Len(TgtCand))}

\* cur.execute("SHOW COLUMNS FROM `table`"): the columns of the table
Columns(table) ==
    CASE table = "missions" -> {"id", "name", "created"}
      [] table = "tracks" -> {"id", "missions_id", "areas_id", "specialpoint_id"}
      [] table = "areacells" -> {"id", "areas_id", "missions_id"}
      [] table = "underwaterobject" ->
            {"id", "missions_id", "taskexecutions_id", "colors_id"}
      [] OTHER -> {"id"} \cup FkCols(table)

\* what src_conn reads; with one database for both connections that is the
\* original rows and the rows committed through tgt_conn
SrcView(table) == IF same_schema THEN src[table] \cup tgt[table] ELSE src[table]

\* what tgt_conn sees: the committed rows and those of its open transaction
TgtView(table) ==
    tgt[table] \cup pending[table] \cup (IF same_schema THEN src[table] ELSE {})

(* ---------------------------- HELPERS ---------------------------------- *)
\* new_id from a sequence that every run starts again
new_id_per_run ==
    LET n == Cardinality(UNION {{w.out.id : w \in written[t]} : t \in Tables})
    IN  "uuid" \o ToString(n + 1)

\* uuid.uuid4().hex: an identifier no earlier call has returned
new_id == "uuid" \o ToString(uuid_ctr)

normalize_value(val) == IF val \in ZERO_DATE_STRS THEN None ELSE val

EmptyMap == [k \in {} |-> None]

Put(m, k, v) == [x \in DOMAIN m \cup {k} |-> IF x = k THEN v ELSE m[x]]

\* m.get(k)
Get(m, k) == IF k \in DOMAIN m THEN m[k] ELSE None

\* SQL `column = %s`: NULL matches nothing
SqlEq(v, p) == v # None /\ p # None /\ v = p

(* --------------------------- CORE LOGIC -------------------------------- *)
\* the first FK column whose parent already has old ids, as an index of
\* FkItems(table); 0 when there is none
FoundParent(table, old_ids) ==
    LET ok == {i \in DOMAIN FkItems(table) :
                  /\ FkItems(table)[i][2] # None
                  /\ old_ids[FkItems(table)[i][2]] # {}}
    IN  IF ok = {} THEN 0 ELSE CHOOSE i \in ok : \A j \in ok : i <= j

\* fetch_rows_for_table with the direct lookups only
fetch_rows_direct(table, root, old_ids) ==
    IF table = "missions"
    THEN {r \in SrcView(table) : SqlEq(r.id, root)}
    ELSE IF table \in DOMAIN FK_MAP /\ "missions_id" \in FkCols(table)
    THEN {r \in SrcView(table) : SqlEq(r.missions_id, root)}
    ELSE {}

\* SelectRows that runs every SELECT and keeps all their rows
SelectRowsAll(trows, table, root, old_ids) ==
    LET fp == FoundParent(table, old_ids)
    IN  {r \in trows :
            \/ table = "missions" /\ SqlEq(r.id, root)
            \/ table # "missions" /\ "missions_id" \in FkCols(table)
                  /\ SqlEq(r.missions_id, root)
            \/ fp # 0 /\ \E x \in old_ids[FkItems(table)[fp][2]] :
                            SqlEq(r[FkItems(table)[fp][1]], x)
            \/ "missions_id" \in Columns(table)
                  /\ \E x \in old_ids["missions"] : SqlEq(r.missions_id, x)}

\* the SELECTs of fetch_rows_for_table, over the rows `trows` of `table`
SelectRows(trows, table, root, old_ids) ==
    LET case1 ==
            IF table = "missions"
            THEN {r \in trows : SqlEq(r.id, root)}
            ELSE IF table \in DOMAIN FK_MAP /\ "missions_id" \in FkCols(table)
            THEN {r \in trows : SqlEq(r.missions_id, root)}
            ELSE {}
        fp == FoundParent(table, old_ids)
        case2 ==
            IF case1 # {} THEN case1
            ELSE IF fp # 0
            THEN LET fk_col == FkItems(table)[fp][1]
                     ids == old_ids[FkItems(table)[fp][2]]
                 IN  {r \in trows : \E x \in ids : SqlEq(r[fk_col], x)}
            ELSE {}
        case3 ==
            IF case2 # {} THEN case2
            ELSE IF "missions_id" \in Columns(table) /\ old_ids["missions"] # {}
            THEN LET first == CHOOSE x \in old_ids["missions"] : TRUE
                 IN  {r \in trows : SqlEq(r.missions_id, first)}
            ELSE {}
    IN  case3

fetch_rows_for_table(table, root, old_ids) ==
    SelectRows(SrcView(table), table, root, old_ids)

\* RemapRow that also drops the FK columns FK_MAP maps to None
RemapRowLookups(table, row, idm) ==
    [c \in DOMAIN row |->
        IF c \in FkCols(table)
        THEN LET parent_tbl == FkParent(table, c)
                 mapped == IF parent_tbl = None THEN None
                           ELSE Get(idm[parent_tbl], row[c])
             IN  IF row[c] = None THEN None
                 ELSE IF Truthy(mapped) THEN mapped
                 ELSE None
        ELSE row[c]]

\* RemapRow that keeps an unresolved old FK instead of dropping it
RemapRowStale(table, row, idm) ==
    [c \in DOMAIN row |->
        IF c \in FkCols(table) /\ FkParent(table, c) # None
        THEN LET mapped == Get(idm[FkParent(table, c)], row[c])
             IN  IF Truthy(mapped) THEN mapped ELSE row[c]
        ELSE row[c]]

\* RemapRow that takes the new id of another row of the parent table
RemapRowOther(table, row, idm) ==
    [c \in DOMAIN row |->
        IF c \in FkCols(table) /\ FkParent(table, c) # None
        THEN LET m == idm[FkParent(table, c)]
                 others == DOMAIN m \ {row[c]}
             IN  IF row[c] = None THEN None
                 ELSE IF row[c] \in DOMAIN m /\ others # {}
                 THEN m[CHOOSE k \in others : TRUE]
                 ELSE Get(m, row[c])
        ELSE row[c]]

\* lines 237-255: the FK columns of one row, rewritten through id_map
RemapRow(table, row, idm) ==
    [c \in DOMAIN row |->
        IF c \in FkCols(table) /\ FkParent(table, c) # None
        THEN LET parent_tbl == FkParent(table, c)
                 old_fk == row[c]
                 mapped == Get(idm[parent_tbl], old_fk)
             IN  IF old_fk = None THEN old_fk
                 ELSE IF Truthy(mapped) THEN mapped
                 ELSE IF parent_tbl = "missions" /\ table = "missions" THEN old_fk
                 ELSE None
        ELSE row[c]]

\* lines 258-260
ZeroDates(row) == [c \in DOMAIN row |-> IF row[c] \in ZERO_DATE_STRS THEN None ELSE row[c]]

\* InsertName without the duplicate check
InsertNameSame(row, name) == name

\* the name a missions row is inserted under (lines 177-182)
InsertName(row, name) ==
    IF \E e \in TgtView("missions") : SqlEq(e.name, row.name)
    THEN name \o "_copy"
    ELSE name

\* the row that is inserted, its old id and its new id
insert_row_target(table, row) ==
    LET old_id == Get(row, "id")
        r0 == [c \in DOMAIN row \ {"id"} |-> normalize_value(row[c])]
        r1 == IF table = "missions"
              THEN [r0 EXCEPT !.name = InsertName(row, r0.name)]
              ELSE r0
    IN  [old_id |-> old_id, newid |-> new_id, r |-> Put(r1, "id", new_id)]

\* StoreDryMapping that records nothing
StoreDryMappingNone(idm, table, old, fake_new) == idm

\* lines 266-268: the mapping a simulated insert records
StoreDryMapping(idm, table, old, fake_new) ==
    IF Truthy(old) THEN [idm EXCEPT ![table] = Put(@, old, fake_new)] ELSE idm

\* StoreMapping that starts the table's map afresh
StoreMappingReset(idm, table, oldid, newid) ==
    [idm EXCEPT ![table] = Put(EmptyMap, IF Truthy(oldid) THEN oldid ELSE newid, newid)]

\* StoreMapping that records the old id as the new one
StoreMappingOld(idm, table, oldid, newid) ==
    IF Truthy(oldid)
    THEN [idm EXCEPT ![table] = Put(@, oldid, oldid)]
    ELSE [idm EXCEPT ![table] = Put(@, newid, newid)]

\* lines 274-278: the mapping an insert records
StoreMapping(idm, table, oldid, newid) ==
    IF Truthy(oldid)
    THEN [idm EXCEPT ![table] = Put(@, oldid, newid)]
    ELSE [idm EXCEPT ![table] = Put(@, newid, newid)]

(* ------------------------------ steps ---------------------------------- *)
Names == {"Alpha", "Beta"}

RunState0 ==
    /\ old_mission_id = None
    /\ ti = 1
    /\ rows = {}
    /\ mission_old_ids_by_table = EmptyDB
    /\ id_map = [t \in Tables |-> EmptyMap]
    /\ written = EmptyDB
    /\ located = EmptyDB
    /\ dry_log = EmptyDB
    /\ pending = EmptyDB
    /\ mission_name = None
    /\ DRY_RUN = FALSE
    /\ COMMIT = TRUE

NoPrev == [name |-> None, dry |-> FALSE, written |-> EmptyDB]

InitWith(srcs, tgts) ==
    /\ src \in srcs
    /\ tgt \in tgts
    /\ tgt0 = tgt
    /\ pc = "start"
    /\ uuid_ctr = 1
    /\ runs = 1
    /\ tgt_calls = 0
    /\ prev = NoPrev
    /\ RunState0

Init == InitWith(SrcChoices(MaxSrcRows), TgtChoices) /\ same_schema = FALSE

\* main, lines 288-307: the arguments set the two flags
ParseArgs ==
    /\ pc = "start"
    /\ mission_name' \in Names
    /\ DRY_RUN' \in BOOLEAN
    /\ COMMIT' \in BOOLEAN
    /\ pc' = "main"
    /\ UNCHANGED <<same_schema, prev, tgt_calls>>
    /\ UNCHANGED <<src, tgt, pending, old_mission_id, ti, rows,
                   mission_old_ids_by_table, id_map, uuid_ctr, written, located,
                   dry_log, tgt0, runs>>

\* FindMission that goes on without a mission row
FindMissionNoReturn ==
    /\ pc = "main"
    /\ LET found == {r \in SrcView("missions") : SqlEq(r.name, mission_name)}
       IN  \E id \in IF found = {} THEN {None} ELSE {r.id : r \in found} :
                /\ old_mission_id' = id
                /\ mission_old_ids_by_table' =
                       [mission_old_ids_by_table EXCEPT !["missions"] = @ \cup {id}]
                /\ pc' = "fetch"
    /\ UNCHANGED <<same_schema, prev, tgt_calls>>
    /\ UNCHANGED <<src, tgt, pending, mission_name, DRY_RUN, COMMIT, ti, rows, id_map,
                   uuid_ctr, written, located, dry_log, tgt0, runs>>

\* main, lines 309-322, and the start of gather_and_insert, lines 208-212
FindMission ==
    /\ pc = "main"
    /\ LET found == {r \in SrcView("missions") : SqlEq(r.name, mission_name)}
       IN  IF found = {}
           THEN /\ pc' = "notfound"
                /\ UNCHANGED <<old_mission_id, mission_old_ids_by_table>>
           ELSE \E mrow \in found :
                /\ old_mission_id' = mrow.id
                /\ mission_old_ids_by_table' =
                       [mission_old_ids_by_table EXCEPT !["missions"] = @ \cup {mrow.id}]
                /\ pc' = "fetch"
    /\ UNCHANGED <<same_schema, prev, tgt_calls>>
    /\ UNCHANGED <<src, tgt, pending, mission_name, DRY_RUN, COMMIT, ti, rows, id_map,
                   uuid_ctr, written, located, dry_log, tgt0, runs>>

\* gather_and_insert, lines 214-230
FetchTable ==
    /\ pc = "fetch"
    /\ LET table == TABLE_ORDER[ti]
           rs == fetch_rows_for_table(table, old_mission_id, mission_old_ids_by_table)
       IN  /\ rows' = rs
           /\ located' = [located EXCEPT ![table] = rs]
           /\ mission_old_ids_by_table' =
                  [mission_old_ids_by_table EXCEPT
                      ![table] = @ \cup {r.id : r \in {q \in rs : Truthy(q.id)}}]
    /\ pc' = "rows"
    /\ UNCHANGED <<same_schema, prev, tgt_calls>>
    /\ UNCHANGED <<src, tgt, pending, mission_name, DRY_RUN, COMMIT, old_mission_id,
                   ti, id_map, uuid_ctr, written, dry_log, tgt0, runs>>

\* gather_and_insert, lines 233-278: one iteration of the row loop
ProcessRow ==
    /\ pc = "rows"
    /\ \E row \in rows :
        LET table == TABLE_ORDER[ti]
            rcopy == ZeroDates(RemapRow(table, row, id_map))
        IN  /\ rows' = rows \ {row}
            /\ IF DRY_RUN
               THEN LET has_id == Truthy(Get(rcopy, "id"))
                        fake_new == "dryrun_" \o (IF has_id THEN rcopy.id ELSE new_id)
                        old == Get(row, "id")
                    IN  /\ dry_log' = [dry_log EXCEPT ![table] = @ \cup {rcopy}]
                        /\ uuid_ctr' = IF has_id THEN uuid_ctr ELSE uuid_ctr + 1
                        /\ id_map' = StoreDryMapping(id_map, table, old, fake_new)
                        /\ UNCHANGED <<pending, written>>
               ELSE LET ins == insert_row_target(table, rcopy)
                    IN  /\ pending' = [pending EXCEPT ![table] = @ \cup {ins.r}]
                        /\ written' = [written EXCEPT
                                          ![table] = @ \cup {[src |-> row, out |-> ins.r]}]
                        /\ uuid_ctr' = uuid_ctr + 1
                        /\ id_map' = StoreMapping(id_map, table, ins.old_id, ins.newid)
                        /\ UNCHANGED dry_log
    /\ UNCHANGED <<same_schema, prev, tgt_calls>>
    /\ UNCHANGED <<src, tgt, pc, mission_name, DRY_RUN, COMMIT, old_mission_id, ti,
                   mission_old_ids_by_table, located, tgt0, runs>>

\* tgt_conn.commit()
Committed == [t \in Tables |-> tgt[t] \cup pending[t]]

\* CommitTable that leaves the loop at a table without rows
CommitTableBreak ==
    /\ pc = "rows"
    /\ rows = {}
    /\ tgt' = Committed
    /\ pending' = EmptyDB
    /\ ti' = ti + 1
    /\ tgt_calls' = tgt_calls + 1
    /\ pc' = IF ti < Len(TABLE_ORDER) /\ located[TABLE_ORDER[ti]] # {}
             THEN "fetch" ELSE "final"
    /\ UNCHANGED <<same_schema, prev>>
    /\ UNCHANGED <<src, mission_name, DRY_RUN, COMMIT, old_mission_id, rows,
                   mission_old_ids_by_table, id_map, uuid_ctr, written, located,
                   dry_log, tgt0, runs>>

\* gather_and_insert, line 281, and the step to the next table
CommitTable ==
    /\ pc = "rows"
    /\ rows = {}
    /\ tgt' = Committed
    /\ pending' = EmptyDB
    /\ ti' = ti + 1
    /\ tgt_calls' = tgt_calls + 1
    /\ pc' = IF ti < Len(TABLE_ORDER) THEN "fetch" ELSE "final"
    /\ UNCHANGED <<same_schema, prev>>
    /\ UNCHANGED <<src, mission_name, DRY_RUN, COMMIT, old_mission_id, rows,
                   mission_old_ids_by_table, id_map, uuid_ctr, written, located,
                   dry_log, tgt0, runs>>

\* main, lines 324-343
Finish ==
    /\ pc = "final"
    /\ IF DRY_RUN
       THEN UNCHANGED <<tgt, tgt_calls>>
       ELSE /\ IF COMMIT THEN tgt' = Committed ELSE UNCHANGED tgt
            /\ tgt_calls' = tgt_calls + 1
    /\ pending' = EmptyDB
    /\ pc' = "done"
    /\ UNCHANGED <<same_schema, prev>>
    /\ UNCHANGED <<src, mission_name, DRY_RUN, COMMIT, old_mission_id, ti, rows,
                   mission_old_ids_by_table, id_map, uuid_ctr, written, located,
                   dry_log, tgt0, runs>>

\* Fail on a connection that commits what is pending when it is closed
FailCommits ==
    /\ pc \in {"main", "fetch", "rows", "final"}
    /\ tgt' = Committed
    /\ pending' = EmptyDB
    /\ pc' = "failed"
    /\ UNCHANGED tgt_calls
    /\ UNCHANGED <<same_schema, prev>>
    /\ UNCHANGED <<src, mission_name, DRY_RUN, COMMIT, old_mission_id, ti, rows,
                   mission_old_ids_by_table, id_map, uuid_ctr, written, located,
                   dry_log, tgt0, runs>>

\* a store failure or an interrupt: the exception leaves main through the
\* finally clause, lines 341-343, which closes tgt_conn without a commit
Fail ==
    /\ pc \in {"main", "fetch", "rows", "final"}
    /\ pending' = EmptyDB
    /\ pc' = "failed"
    /\ UNCHANGED <<same_schema, prev, tgt_calls>>
    /\ UNCHANGED <<src, tgt, mission_name, DRY_RUN, COMMIT, old_mission_id, ti, rows,
                   mission_old_ids_by_table, id_map, uuid_ctr, written, located,
                   dry_log, tgt0, runs>>

\* the program is started again on the same two stores
NextRun ==
    /\ pc \in {"done", "notfound"}
    /\ runs < MaxRuns
    /\ runs' = runs + 1
    /\ pc' = "start"
    /\ tgt0' = tgt
    /\ old_mission_id' = None
    /\ ti' = 1
    /\ rows' = {}
    /\ mission_old_ids_by_table' = EmptyDB
    /\ id_map' = [t \in Tables |-> EmptyMap]
    /\ written' = EmptyDB
    /\ located' = EmptyDB
    /\ dry_log' = EmptyDB
    /\ pending' = EmptyDB
    /\ mission_name' = None
    /\ DRY_RUN' = FALSE
    /\ COMMIT' = TRUE
    /\ tgt_calls' = 0
    /\ UNCHANGED <<same_schema, prev, src, tgt, uuid_ctr>>

\* the program is started again on the same source and an empty target
NextRunFresh ==
    /\ pc = "done"
    /\ runs < 2
    /\ runs' = runs + 1
    /\ prev' = [name |-> mission_name, dry |-> DRY_RUN, written |-> written]
    /\ pc' = "start"
    /\ tgt' = EmptyDB
    /\ tgt0' = EmptyDB
    /\ old_mission_id' = None
    /\ ti' = 1
    /\ rows' = {}
    /\ mission_old_ids_by_table' = EmptyDB
    /\ id_map' = [t \in Tables |-> EmptyMap]
    /\ written' = EmptyDB
    /\ located' = EmptyDB
    /\ dry_log' = EmptyDB
    /\ pending' = EmptyDB
    /\ mission_name' = None
    /\ DRY_RUN' = FALSE
    /\ COMMIT' = TRUE
    /\ tgt_calls' = 0
    /\ UNCHANGED <<same_schema, src, uuid_ctr>>

Next ==
    \/ ParseArgs
    \/ FindMission
    \/ FetchTable
    \/ ProcessRow
    \/ CommitTable
    \/ Finish
    \/ Fail

Spec == Init /\ [][Next]_vars

InitRepeat == InitWith(SrcChoices(RepeatSrcRows), {EmptyDB}) /\ same_schema = FALSE

NextRepeat == Next \/ NextRun

SpecRepeat == InitRepeat /\ [][NextRepeat]_vars

(* ------------------------------ claims --------------------------------- *)
\* indices of the FK columns of `table` whose parent takes part in the clone
Participating(table) == {i \in DOMAIN FkItems(table) : FkItems(table)[i][2] # None}

\* old ids of the rows of `table` this run has inserted a copy of
ClonedIds(table) == {w.src.id : w \in written[table]}

ClonedRows(table) == {w.src : w \in written[table]}

\* C1: after a completed non-simulated run, every declared FK column with a
\* participating parent, of every row the run wrote, is NULL or is the
\* identifier of a row this run wrote into the parent table of the target.
C1_NoDanglingFk ==
    (pc = "done" /\ ~DRY_RUN) =>
        \A t \in Tables : \A w \in written[t] : \A i \in Participating(t) :
            LET c == FkItems(t)[i][1]
                P == FkItems(t)[i][2]
            IN  c \in DOMAIN w.out =>
                    \/ w.out[c] = None
                    \/ \E p \in written[P] : p.out.id = w.out[c] /\ p.out \in tgt[P]

\* a completed run wrote a row with a resolved FK and a row whose FK was dropped
C1_Witness ==
    /\ pc = "done"
    /\ ~DRY_RUN
    /\ \E w \in written["tracks"] : w.out.areas_id # None
    /\ \E w \in written["tasks"] : w.src.tracks_id # None /\ w.out.tracks_id = None

\* the source store of the scenario: M1 "Alpha", areas a1 and a2, one track on a1
ScenarioSrc == DBOf(Cand, {1, 3, 4, 6})

\* C2: the value written for a declared FK column is the remap policy's:
\* absent stays absent, a value with an entry in the parent's map becomes the
\* new id generated for that very parent row, anything else becomes absent;
\* in the scenario the track's areas_id is the new id of a1.
C2_RemapPolicy ==
    /\ \A t \in Tables : \A w \in written[t] : \A i \in Participating(t) :
          LET c == FkItems(t)[i][1]
              P == FkItems(t)[i][2]
              v == w.src[c]
          IN  c \in DOMAIN w.src =>
                IF v = None THEN w.out[c] = None
                ELSE IF v \in DOMAIN id_map[P]
                THEN /\ w.out[c] = id_map[P][v]
                     /\ w.out[c] # v
                     /\ \E p \in written[P] : p.src.id = v /\ p.out.id = w.out[c]
                     /\ \A q \in written[P] : q.src.id # v => q.out.id # w.out[c]
                ELSE w.out[c] = None
    /\ (src = ScenarioSrc /\ mission_name = "Alpha" /\ pc = "done" /\ ~DRY_RUN) =>
          /\ Cardinality(written["missions"]) = 1
          /\ Cardinality(written["areas"]) = 2
          /\ Cardinality(written["tracks"]) = 1
          /\ \A w \in written["tracks"] : \A a \in written["areas"] :
                /\ w.out.areas_id # "a1"
                /\ (w.out.areas_id = a.out.id) <=> (a.src.id = "a1")

C2_Witness ==
    /\ src = ScenarioSrc
    /\ mission_name = "Alpha"
    /\ pc = "done"
    /\ ~DRY_RUN
    /\ \E w \in written["tracks"] : \E a \in written["areas"] :
          a.src.id = "a1" /\ w.out.areas_id = a.out.id

C4_NoCommitLeavesNothing ==
    (pc = "done" /\ ~DRY_RUN /\ ~COMMIT) =>
        \A t \in Tables : \A w \in written[t] : w.out \notin tgt[t]

\* the tables whose row loop has ended
Processed == {TABLE_ORDER[i] : i \in {j \in 1..Len(TABLE_ORDER) :
                                        j < ti \/ (j = ti /\ pc = "rows" /\ rows = {})}}

\* C5: in simulation mode no insert is executed and the target is untouched;
\* once a table is processed its map holds a synthetic entry for the old id
\* of every located row, and the rows later tables would insert carry those
\* synthetic ids of their located parents.
C5_DryRunWritesNothing ==
    DRY_RUN =>
        /\ written = EmptyDB
        /\ pending = EmptyDB
        /\ tgt = tgt0
        /\ \A t \in Processed : \A r \in located[t] :
              Truthy(r.id) =>
                  r.id \in DOMAIN id_map[t] /\ id_map[t][r.id] = "dryrun_" \o r.id
        /\ \A t \in Tables : \A d \in dry_log[t] : \A i \in Participating(t) :
              LET c == FkItems(t)[i][1]
                  P == FkItems(t)[i][2]
              IN  c \in DOMAIN d =>
                      \/ d[c] = None
                      \/ \E r \in located[P] : d[c] = "dryrun_" \o r.id

C5_Witness ==
    /\ DRY_RUN
    /\ pc = "done"
    /\ located["areas"] # {}
    /\ \E d \in dry_log["tracks"] : d.areas_id = "dryrun_a1"

\* C6: the committed rows of the target are, at every moment and so after a
\* failure in table T, the rows of the tables before T in full and no row
\* of T or of a later table.
C6_CommittedPrefix ==
    \A i \in 1..Len(TABLE_ORDER) :
        LET t == TABLE_ORDER[i]
        IN  IF i < ti
            THEN /\ tgt[t] = tgt0[t] \cup {w.out : w \in written[t]}
                 /\ ~DRY_RUN => ClonedRows(t) = located[t]
                 /\ ~DRY_RUN => Cardinality(written[t]) = Cardinality(located[t])
            ELSE tgt[t] = tgt0[t]

\* the run failed in a table after inserting a row of it, with an earlier
\* table committed
C6_Witness ==
    /\ pc = "failed"
    /\ ti > 1
    /\ ti <= Len(TABLE_ORDER)
    /\ written[TABLE_ORDER[ti]] # {}
    /\ tgt[TABLE_ORDER[ti]] = tgt0[TABLE_ORDER[ti]]
    /\ \E w \in written["missions"] : w.out \in tgt["missions"]

\* C7 as stated: no two missions rows of the target share a name.
C7_UniqueMissionNames ==
    \A r1 \in tgt["missions"] : \A r2 \in tgt["missions"] :
        r1.name = r2.name => r1 = r2

\* C8: a root row inserted while the target holds a missions row of the same
\* name is written under a different name; otherwise under its own name.
C8_RootNameDisambiguated ==
    [][\A w \in written'["missions"] \ written["missions"] :
          IF \E e \in TgtView("missions") : e.name = w.src.name
          THEN \A e \in TgtView("missions") :
                  e.name = w.src.name => w.out.name # e.name
          ELSE w.out.name = w.src.name]_vars

C8_Witness ==
    /\ \E e \in tgt0["missions"] : e.name = "Alpha"
    /\ \E w \in written["missions"] : w.src.name = "Alpha" /\ w.out.name = "Alpha_copy"

IndexOf(table) == CHOOSE i \in 1..Len(TABLE_ORDER) : TABLE_ORDER[i] = table

\* the source rows reachable from the root row along the FK_MAP edges
RECURSIVE Reach(_)
Reach(table) ==
    IF table = "missions"
    THEN {r \in src[table] : r.id = old_mission_id}
    ELSE {r \in src[table] :
            \E i \in Participating(table) :
                LET c == FkItems(table)[i][1]
                    P == FkItems(table)[i][2]
                IN  /\ c \in DOMAIN r
                    /\ r[c] # None
                    /\ \E q \in Reach(P) : q.id = r[c]}

\* C9 as stated: a completed run has cloned every source row reachable from
\* the root row.
C9_AllReachableCloned ==
    (pc = "done" /\ ~DRY_RUN) => \A t \in Tables : Reach(t) \subseteq ClonedRows(t)

\* the first FK column of `table` with a participating parent
FirstFk(table) == CHOOSE i \in Participating(table) : \A j \in Participating(table) : i <= j

\* C9 amended: a completed run has cloned the root row and every source row
\* whose first declared FK column with a participating parent holds the id of
\* a cloned row; a row tied to the subtree by a later FK column only is not
\* looked for.
C9_FirstFkCloned ==
    (pc = "done" /\ ~DRY_RUN) =>
        \A t \in Tables :
            IF t = "missions"
            THEN {r \in src[t] : r.id = old_mission_id} \subseteq ClonedRows(t)
            ELSE LET c == FkItems(t)[FirstFk(t)][1]
                     P == FkItems(t)[FirstFk(t)][2]
                 IN  {r \in src[t] : r[c] # None /\ r[c] \in ClonedIds(P)}
                        \subseteq ClonedRows(t)

\* a cell was cloned through its area while a track on the same area, owned
\* by another mission, was not
C9_Witness ==
    /\ pc = "done"
    /\ ~DRY_RUN
    /\ \E w \in written["areacells"] : w.src.areas_id \in ClonedIds("areas")
    /\ \E r \in src["tracks"] : r.areas_id \in ClonedIds("areas") /\ r \notin ClonedRows("tracks")

\* C10: when a table is processed every participating parent of it is an
\* earlier table, already processed, and the parent's map has an entry for
\* every old id seen for the parent.
C10_ParentsMappedFirst ==
    pc \in {"fetch", "rows"} =>
        \A i \in Participating(TABLE_ORDER[ti]) :
            LET P == FkItems(TABLE_ORDER[ti])[i][2]
            IN  /\ IndexOf(P) < ti
                /\ P \in Processed
                /\ mission_old_ids_by_table[P] \subseteq DOMAIN id_map[P]
                /\ \A r \in located[P] : Truthy(r.id) => r.id \in DOMAIN id_map[P]

C10_Witness ==
    /\ pc = "fetch"
    /\ TABLE_ORDER[ti] = "tasks"
    /\ mission_old_ids_by_table["tracks"] # {}
    /\ mission_old_ids_by_table["specialpoint"] # {}
    /\ mission_old_ids_by_table["tracks"] \subseteq DOMAIN id_map["tracks"]

\* C11: within one run id_map only grows: no step removes or changes an
\* entry, a step adds at most one entry and only to the map of the table
\* being processed, and the map of a table has exactly one entry per row
\* inserted into it.
C11_IdMapGrowsOnly ==
    [][\A t \in Tables :
          /\ \A k \in DOMAIN id_map[t] :
                k \in DOMAIN id_map'[t] /\ id_map'[t][k] = id_map[t][k]
          /\ id_map'[t] # id_map[t] =>
                /\ pc = "rows"
                /\ t = TABLE_ORDER[ti]
                /\ Cardinality(DOMAIN id_map'[t]) = Cardinality(DOMAIN id_map[t]) + 1
          /\ ~DRY_RUN' => Cardinality(DOMAIN id_map'[t]) = Cardinality(written'[t])]_vars

\* two areas were mapped and a later table has been mapped since
C11_Witness ==
    /\ ~DRY_RUN
    /\ Cardinality(DOMAIN id_map["areas"]) = 2
    /\ Cardinality(DOMAIN id_map["tracks"]) = 1
    /\ pc = "done"

\* C12: when the source has no mission of the requested name the run ends
\* without entering gather_and_insert: nothing is inserted, no commit or
\* rollback is issued on tgt_conn and the target is unchanged.
C12_NotFoundTouchesNothing ==
    (pc \notin {"start", "main"}
        /\ ~ \E r \in SrcView("missions") : r.name = mission_name)
    => /\ pc \in {"notfound", "failed"}
       /\ mission_old_ids_by_table = EmptyDB
       /\ located = EmptyDB
       /\ written = EmptyDB
       /\ pending = EmptyDB
       /\ tgt_calls = 0
       /\ tgt = tgt0

C12_Witness ==
    /\ pc = "notfound"
    /\ mission_name = "Beta"
    /\ src["areas"] # {}
    /\ tgt = tgt0

\* the participating parents of `table`
Parents(table) == {FkItems(table)[i][2] : i \in Participating(table)}

\* the tables `table` depends on through FK_MAP
RECURSIVE Anc(_)
Anc(table) == UNION {{P} \cup Anc(P) : P \in Parents(table)}

\* the store `db` with no row in table T
Without(db, T) == [t \in Tables |-> IF t = T THEN {} ELSE db[t]]

\* the rows of `table` a run for old_mission_id locates in the store `db`
RECURSIVE LocateIn(_, _)
LocateIn(db, table) ==
    LET old_ids == [P \in Tables |->
                      IF P \in Parents(table) \cup {"missions"} /\ P # table
                      THEN {r.id : r \in {q \in LocateIn(db, P) : Truthy(q.id)}}
                              \cup (IF P = "missions" THEN {old_mission_id} ELSE {})
                      ELSE {}]
    IN  SelectRows(db[table], table, old_mission_id, old_ids)

\* table U got the rows, and the FK values, a run over the store `db` gives it
SameAsIn(db, U) ==
    /\ located[U] = (IF db[U] = {} THEN {} ELSE LocateIn(db, U))
    /\ \A w \in written[U] : \A i \in Participating(U) :
          LET c == FkItems(U)[i][1]
              P == FkItems(U)[i][2]
          IN  (w.out[c] # None) <=> \E q \in LocateIn(db, P) : SqlEq(w.src[c], q.id)

\* C13: a table T of which the run locates no row gets no row, the run still
\* goes through every table, and a table U that does not depend on T gets
\* the rows and the FK values it gets from a source whose table T is empty,
\* whatever rows T holds.
C13_EmptyTableFrame ==
    (pc = "done") =>
        /\ ti = Len(TABLE_ORDER) + 1
        /\ \A T \in Tables : located[T] = {} => written[T] = {}
        /\ \A U \in Tables : SameAsIn(src, U)
        /\ \A T \in {X \in Tables : src[X] # {}} : \A U \in Tables \ {T} :
              T \notin Anc(U) => SameAsIn(Without(src, T), U)

\* a run found no specialpoint and still cloned a task and its execution
C13_Witness ==
    /\ pc = "done"
    /\ ~DRY_RUN
    /\ src["areas"] # {}
    /\ located["specialpoint"] = {}
    /\ written["specialpoint"] = {}
    /\ written["tasks"] # {}
    /\ written["taskexecutions"] # {}

InitTwice == InitWith(SrcChoices(TwiceSrcRows), {EmptyDB}) /\ same_schema = FALSE

NextTwice == Next \/ NextRunFresh

SpecTwice == InitTwice /\ [][NextTwice]_vars

InitSame == InitWith(SrcChoices(SameSrcRows), {EmptyDB}) /\ same_schema = TRUE

SpecSame == InitSame /\ [][Next]_vars

\* the identifiers of the rows of a table -> set of [src, out]
OutIds(wr) == UNION {{w.out.id : w \in wr[t]} : t \in Tables}

\* the source row behind the inserted row of id `id` in wr[P]
SrcOf(wr, P, id) == {w.src : w \in {x \in wr[P] : x.out.id = id}}

\* C14: in a non-simulated run every located row yields exactly one target
\* row, under an identifier no other row of the run and no source row has;
\* two runs for one root into fresh targets yield copies of the same shape
\* (same source rows per table, same parent behind every FK value) and with
\* no identifier in common.
C14_FreshIdsSameShape ==
    /\ ~DRY_RUN =>
          /\ \A t \in Processed :
                /\ ClonedRows(t) = located[t]
                /\ Cardinality(written[t]) = Cardinality(located[t])
                /\ Cardinality({w.out : w \in written[t]}) = Cardinality(located[t])
          /\ \A t \in Tables : \A u \in Tables :
                \A w \in written[t] : \A v \in written[u] :
                    w.out.id = v.out.id => t = u /\ w = v
          /\ \A t \in Tables : \A w \in written[t] :
                /\ pc # "failed" => w.out \in TgtView(t)
                /\ \A u \in Tables : \A r \in src[u] : r.id # w.out.id
    /\ (pc = "done" /\ runs = 2 /\ ~DRY_RUN /\ ~prev.dry /\ prev.name = mission_name) =>
          /\ OutIds(written) \cap OutIds(prev.written) = {}
          /\ \A t \in Tables :
                /\ Cardinality(written[t]) = Cardinality(prev.written[t])
                /\ \A w \in written[t] : \E v \in prev.written[t] :
                      /\ v.src = w.src
                      /\ \A i \in Participating(t) :
                            LET c == FkItems(t)[i][1]
                                P == FkItems(t)[i][2]
                            IN  /\ (w.out[c] = None) <=> (v.out[c] = None)
                                /\ SrcOf(written, P, w.out[c])
                                      = SrcOf(prev.written, P, v.out[c])

\* the second of two runs for one root ended, each having cloned a track
\* linked to its area
C14_Witness ==
    /\ pc = "done"
    /\ runs = 2
    /\ ~DRY_RUN
    /\ ~prev.dry
    /\ prev.name = mission_name
    /\ \E w \in written["tracks"] : w.out.areas_id # None
    /\ \E v \in prev.written["tracks"] : v.out.areas_id # None

\* the tables fetch_rows_for_table has been called for
Fetched == {TABLE_ORDER[i] : i \in {j \in 1..Len(TABLE_ORDER) :
                                      j < ti \/ (j = ti /\ pc = "rows")}}

\* the place of each table in TABLE_ORDER
TableIndex == [t \in Tables |-> IndexOf(t)]

\* `table` is a member of Fetched
IsFetched(table) ==
    TableIndex[table] < ti \/ (TableIndex[table] = ti /\ pc = "rows")

\* the first of a sequence of sets that is not empty, {} when all are
RECURSIVE FirstNonEmpty(_)
FirstNonEmpty(sets) ==
    IF sets = << >> THEN {}
    ELSE IF Head(sets) # {} THEN Head(sets)
    ELSE FirstNonEmpty(Tail(sets))

\* C15: the rows located for a table are those of the first of four
\* strategies that yields any: the root row by id; missions_id = root where
\* FK_MAP declares missions_id; the first declared FK column whose parent has
\* old ids, matched against them; a missions_id column of the table matched
\* against the root id; and none when all four yield none.
C15_FirstStrategyWins ==
    \A t \in Tables :
      IF src[t] = {} THEN located[t] = {}
      ELSE IF ~IsFetched(t) THEN TRUE
      ELSE
        LET root == old_mission_id
            seen == mission_old_ids_by_table
            byId == IF t = "missions" THEN {r \in src[t] : r.id = root} ELSE {}
            direct == IF t # "missions" /\ "missions_id" \in FkCols(t)
                      THEN {r \in src[t] : r.missions_id = root}
                      ELSE {}
            cands == {i \in Participating(t) : seen[FkItems(t)[i][2]] # {}}
            byParent == IF cands = {} THEN {}
                        ELSE LET i == CHOOSE k \in cands : \A j \in cands : k <= j
                             IN  {r \in src[t] :
                                    r[FkItems(t)[i][1]] \in seen[FkItems(t)[i][2]]}
            byColumn == IF "missions_id" \in Columns(t)
                        THEN {r \in src[t] : r.missions_id = root}
                        ELSE {}
        IN  located[t] = FirstNonEmpty(<<byId, direct, byParent, byColumn>>)

\* an area was cloned, no cell hangs on it, and the cell was found through
\* its missions_id column
C15_Witness ==
    /\ pc = "done"
    /\ mission_old_ids_by_table["areas"] # {}
    /\ \E r \in located["areacells"] : r.areas_id = None /\ r.missions_id = old_mission_id
    /\ located["tracks"] # {}

\* the table a column is named after, None when there is none
RefTable(c) ==
    IF \E P \in Tables : c = P \o "_id"
    THEN CHOOSE P \in Tables : c = P \o "_id"
    ELSE None

\* C16 as stated: no written row holds, in a column referencing a
\* participating table, the old identifier of a cloned row.
C16_NoOldIdInCopy ==
    \A t \in Tables : \A w \in written[t] : \A c \in DOMAIN w.out :
        RefTable(c) # None => w.out[c] \notin ClonedIds(RefTable(c))

\* C17 as stated: the row simulation mode shows is, but for its id, the row
\* the real run inserts.
C17_DryRunSameRow ==
    DRY_RUN =>
        \A t \in Tables : \A d \in dry_log[t] : \A c \in DOMAIN d \ {"id"} :
            d[c] = insert_row_target(t, d).r[c]

\* C18: a column that is not a declared FK to a participating parent is
\* written as it was read, but for a zero date, which becomes absent, the
\* id, which is the fresh identifier, and the root's name, which may get
\* the suffix.
C18_OtherColumnsKept ==
    \A t \in {x \in Tables : written[x] # {}} :
        LET declared == {FkItems(t)[i][1] : i \in Participating(t)}
        IN  \A w \in written[t] :
              /\ DOMAIN w.out = DOMAIN w.src
              /\ \A c \in DOMAIN w.src \ declared :
                    IF c = "id"
                    THEN /\ w.out[c] # w.src[c]
                         /\ \E k \in DOMAIN id_map[t] : id_map[t][k] = w.out[c]
                    ELSE IF t = "missions" /\ c = "name"
                    THEN w.out[c] \in {w.src[c], w.src[c] \o "_copy"}
                    ELSE IF w.src[c] \in ZERO_DATE_STRS
                    THEN w.out[c] = None
                    ELSE w.out[c] = w.src[c]

\* a lookup reference and an undeclared column were copied as they were and
\* a zero date became absent
C18_Witness ==
    /\ pc = "done"
    /\ \E w \in written["trackpoints"] : w.out.navigationmode_id = "nav7"
    /\ \E w \in written["missions"] : w.src.created \in ZERO_DATE_STRS /\ w.out.created = None
    /\ \E w \in written["tracks"] : w.out.specialpoint_id = "s2"

\* TABLE_ORDER names no table twice, every table of it has an FK_MAP entry,
\* and a participating parent stands before the table that declares it
OrderConsistent ==
    /\ \A i, j \in 1..Len(TABLE_ORDER) : i # j => TABLE_ORDER[i] # TABLE_ORDER[j]
    /\ \A i \in 1..Len(TABLE_ORDER) : TABLE_ORDER[i] \in DOMAIN FK_MAP
    /\ \A T \in DOMAIN FK_MAP : \A k \in DOMAIN FK_MAP[T] :
          LET P == FK_MAP[T][k][2]
          IN  P # None =>
                \E i, j \in 1..Len(TABLE_ORDER) :
                    i < j /\ TABLE_ORDER[i] = P /\ TABLE_ORDER[j] = T

\* C19: TABLE_ORDER names no table twice, every table of it has an FK_MAP
\* entry, and every participating parent an FK_MAP entry declares stands in
\* TABLE_ORDER strictly before the table that declares it, so that the loop
\* has passed every participating parent of the table whose rows it holds.
C19_SchemaGraphConsistent ==
    /\ OrderConsistent
    /\ pc = "rows" =>
          \A k \in Participating(TABLE_ORDER[ti]) :
              \E i \in 1..(ti - 1) : TABLE_ORDER[i] = FkItems(TABLE_ORDER[ti])[k][2]

\* the rows of taskexecutions are being remapped and their parent's map is full
C19_Witness ==
    /\ pc = "rows"
    /\ ti <= Len(TABLE_ORDER)
    /\ TABLE_ORDER[ti] = "taskexecutions"
    /\ rows # {}
    /\ DOMAIN id_map["tasks"] # {}

\* C20: with one database for source and target, where the reads see what
\* the run has written, every fetch locates the rows it locates among the
\* original rows alone, no copy is ever located, and no original row is
\* copied twice; after a completed run every located row with an id has
\* exactly one copy.
C20_NeverClonesOwnCopies ==
    same_schema =>
        /\ \A t \in Fetched :
              /\ located[t] \subseteq src[t]
              /\ located[t] =
                    SelectRows(src[t], t, old_mission_id, mission_old_ids_by_table)
        /\ \A t \in Tables :
              /\ \A w \in written[t] : w.out \notin located[t]
              /\ \A w1, w2 \in written[t] : w1.src = w2.src => w1 = w2
              /\ (pc = "done" /\ ~DRY_RUN) =>
                    \A r \in located[t] :
                        Truthy(r.id) => Cardinality({w \in written[t] : w.src = r}) = 1

\* a one-database run is complete, and a table was fetched while the copies
\* of its parent's rows were readable from the source side
C20_Witness ==
    /\ same_schema
    /\ pc = "done"
    /\ ~DRY_RUN
    /\ written["areacells"] # {}
    /\ \E w \in written["areas"] : w.out \in SrcView("areas") /\ w.out \notin src["areas"]
    /\ \E w \in written["areacells"] : w.out \in SrcView("areacells")

TypeOK ==
    /\ pc \in {"start", "main", "fetch", "rows", "final", "done", "notfound", "failed"}
    /\ ti \in 1..(Len(TABLE_ORDER) + 1)
    /\ runs \in 1..MaxRuns

====
